---- MODULE Spec2Model ----
(***************************************************************************)
(* Model of the DBGp client session of SublimeTextXdebug                   *)
(* (src/xdebug/session.py): the Protocol class (framing, send, read,       *)
(* clear, listen) and the property tree builder.                           *)
(*                                                                         *)
(* Text is a sequence of code points, socket data a sequence of byte       *)
(* values; H.data_read / H.data_write convert between the two.             *)
(***************************************************************************)
EXTENDS Integers, Sequences, FiniteSets, TLC

\* ------------------------------------------------------------------ bounds
\* longest payload the engine puts in one frame
MaxPayload == 2
\* most bytes in flight from the engine to the client
MaxWire == 6
\* most send() calls between two clear() calls
MaxSends == 2
\* most recv() chunk sizes the environment fixes for one read
MaxCuts == 1
\* most frames of get_response_properties on the stack before the interpreter
\* raises RecursionError
MaxNesting == 4
\* longest short write of the socket
MaxShort == 3

\* --------------------------------------------------------- byte/char values
\* '\x00', the segment terminator
NUL == 0
\* ' '
SP == 32
\* 'a', an ASCII payload character
CharA == 97
\* U+00E9, a character whose UTF-8 encoding takes two bytes (195, 169)
EAcute == 233
\* Protocol.read_size
read_size == 1024

VARIABLES
    buffer,      \* Protocol.buffer: text received and not yet returned
    connected,   \* Protocol.connected
    listening,   \* Protocol.listening
    socket,      \* Protocol.socket: "None" or "sock"
    tid,         \* Protocol._transaction_id
    wire,        \* bytes the engine wrote that recv() has not returned yet
    peer,        \* state of the connection: "none", "up", "reset", "closed"
    pc,          \* where the thread running listen() is
    last,        \* the last call on the session and its outcome
    issued,      \* history: the ids of the '-i <id>' tokens built since the last clear()
    settings,    \* the resolved settings: max_depth, max_children, hide_password
    S_SESSION,   \* S.SESSION: "None" or "session"
    S_CONTEXT_DATA,    \* S.CONTEXT_DATA
    S_BREAKPOINT_ROW,  \* S.BREAKPOINT_ROW: "None" or "row"
    phase,       \* "idle", or "done" right after a call of the tree builder
    call,        \* that call: its function, calls on the session, outcome
    S_BREAKPOINT,  \* S.BREAKPOINT: None, or the files with their breakpoints
    threadpc,    \* where each thread that runs get_stack_values() stands
    ops,         \* history: the calls those threads made on the shared session
    reader       \* the thread inside read(): where it is, and the length segment

protocolVars == <<buffer, connected, listening, socket, tid, wire, peer, pc, last, issued>>

\* the state the tree builder does not touch
sideVars == <<S_BREAKPOINT, threadpc, ops, reader>>

treeVars == <<settings, S_SESSION, S_CONTEXT_DATA, S_BREAKPOINT_ROW, phase, call, sideVars>>

vars == <<protocolVars, treeVars>>

\* ------------------------------------------------------------ sequences
Min(a, b) == IF a < b THEN a ELSE b

Take(s, n) == SubSeq(s, 1, Min(n, Len(s)))

Drop(s, n) == SubSeq(s, Min(n, Len(s)) + 1, Len(s))

IsPrefix(p, s) == Len(p) <= Len(s) /\ SubSeq(s, 1, Len(p)) = p

SeqsUpTo(S, n) == UNION {[1..k -> S] : k \in 0..n}

\* '\x00' in s
HasNul(s) == \E i \in 1..Len(s) : s[i] = NUL

\* index of the first '\x00' of s (s holds one)
FirstNul(s) == CHOOSE i \in 1..Len(s) : s[i] = NUL /\ \A j \in 1..(i-1) : s[j] # NUL

\* ---------------------------------------------------------- conversions
\* H.data_read: socket bytes to text, a strict UTF-8 decode of one recv()
\* chunk.  One- and two-byte sequences are decoded; any other byte, a lead
\* byte at the end of the chunk and a stray continuation byte are errors.
RECURSIVE Utf8Decode(_)
Utf8Decode(bytes) ==
    IF bytes = <<>> THEN [ok |-> TRUE, text |-> <<>>]
    ELSE LET b == Head(bytes) IN
         IF b < 128
         THEN LET r == Utf8Decode(Tail(bytes)) IN
              [ok |-> r.ok, text |-> <<b>> \o r.text]
         ELSE IF b >= 194 /\ b <= 223 /\ Len(bytes) >= 2
                 /\ bytes[2] >= 128 /\ bytes[2] <= 191
         THEN LET r == Utf8Decode(Tail(Tail(bytes))) IN
              [ok |-> r.ok, text |-> <<(b - 192) * 64 + (bytes[2] - 128)>> \o r.text]
         ELSE [ok |-> FALSE, text |-> <<>>]

data_read(bytes) == Utf8Decode(bytes)

\* H.data_write: text to socket bytes, the UTF-8 encoding
RECURSIVE Utf8Encode(_)
Utf8Encode(text) ==
    IF text = <<>> THEN <<>>
    ELSE LET c == Head(text) IN
         (IF c < 128 THEN <<c>> ELSE <<192 + (c \div 64), 128 + (c % 64)>>)
         \o Utf8Encode(Tail(text))

data_write(text) == Utf8Encode(text)

\* '%i' % n for n >= 0: the decimal digits of n
RECURSIVE FormatInt(_)
FormatInt(n) ==
    IF n < 10 THEN <<48 + n>> ELSE FormatInt(n \div 10) \o <<48 + (n % 10)>>

IsDigit(c) == c >= 48 /\ c <= 57

\* int(s) accepts s when it is a non-empty run of decimal digits (the model's
\* alphabet has no sign, blank or underscore); anything else is a ValueError
IsDecimal(s) == Len(s) > 0 /\ \A i \in 1..Len(s) : IsDigit(s[i])

RECURSIVE IntOf(_)
IntOf(s) ==
    IF s = <<>> THEN 0 ELSE IntOf(SubSeq(s, 1, Len(s) - 1)) * 10 + (s[Len(s)] - 48)

\* ------------------------------------------------------------- framing
\* The while loop of read_until_null: recv() until the buffer holds a NUL.
\* cuts are the sizes of the chunks the next recv() calls return (the rest of
\* the stream comes in one chunk); n counts the recv() calls.  A recv() on a
\* reset connection raises socket.error, one with nothing to return blocks.
\* On a connection the peer has closed, recv() returns b'' at once: the loop
\* of l.94-95 appends '' and tests again, for ever ("spins").
RECURSIVE RecvLoop(_, _, _, _, _, _)
RecvLoop(buf, w, cuts, n, sock, pr) ==
    IF HasNul(buf)
    THEN [exc |-> "none", buffer |-> buf, wire |-> w, cuts |-> cuts, recvs |-> n]
    ELSE IF sock = "None"
    THEN [exc |-> "AttributeError", buffer |-> buf, wire |-> w, cuts |-> cuts, recvs |-> n]
    ELSE IF pr = "reset"
    THEN [exc |-> "socket.error", buffer |-> buf, wire |-> w, cuts |-> cuts, recvs |-> n + 1]
    ELSE IF w = <<>> /\ pr = "closed"
    THEN [exc |-> "spins", buffer |-> buf, wire |-> w, cuts |-> cuts, recvs |-> n + 1]
    ELSE IF w = <<>>
    THEN [exc |-> "blocked", buffer |-> buf, wire |-> w, cuts |-> cuts, recvs |-> n + 1]
    ELSE LET avail == Min(Len(w), read_size)
             k     == IF cuts = <<>> THEN avail ELSE Min(Head(cuts), avail)
             rest  == IF cuts = <<>> THEN <<>> ELSE Tail(cuts)
             d     == data_read(Take(w, k))
         IN  IF ~d.ok
             THEN [exc |-> "UnicodeDecodeError", buffer |-> buf, wire |-> Drop(w, k),
                   cuts |-> rest, recvs |-> n + 1]
             ELSE RecvLoop(buf \o d.text, Drop(w, k), rest, n + 1, sock, pr)

\* read_until_null() without the test of self.connected
read_until_null_unchecked(s) ==
    LET r == RecvLoop(s.buffer, s.wire, s.cuts, s.recvs, s.socket, s.peer) IN
    IF r.exc # "none"
    THEN [s EXCEPT !.buffer = r.buffer, !.wire = r.wire, !.cuts = r.cuts,
                   !.recvs = r.recvs] @@ [exc |-> r.exc, data |-> <<>>]
    ELSE LET i == FirstNul(r.buffer) IN
         [s EXCEPT !.buffer = SubSeq(r.buffer, i + 1, Len(r.buffer)),
                   !.wire = r.wire, !.cuts = r.cuts, !.recvs = r.recvs]
         @@ [exc |-> "none", data |-> SubSeq(r.buffer, 1, i - 1)]

\* Protocol.read_until_null on the session state s =
\* [buffer, wire, cuts, recvs, connected, socket, peer]
read_until_null(s) ==
    IF s.connected
    THEN LET r == RecvLoop(s.buffer, s.wire, s.cuts, s.recvs, s.socket, s.peer) IN
         IF r.exc # "none"
         THEN [s EXCEPT !.buffer = r.buffer, !.wire = r.wire, !.cuts = r.cuts,
                        !.recvs = r.recvs] @@ [exc |-> r.exc, data |-> <<>>]
         ELSE LET i == FirstNul(r.buffer) IN
              [s EXCEPT !.buffer = SubSeq(r.buffer, i + 1, Len(r.buffer)),
                        !.wire = r.wire, !.cuts = r.cuts, !.recvs = r.recvs]
              @@ [exc |-> "none", data |-> SubSeq(r.buffer, 1, i - 1)]
    ELSE s @@ [exc |-> "ProtocolConnectionException", data |-> <<>>]

Session(s) == [buffer |-> s.buffer, wire |-> s.wire, cuts |-> s.cuts, recvs |-> s.recvs,
               connected |-> s.connected, socket |-> s.socket, peer |-> s.peer]

\* Protocol.read_data: two segments, the first the decimal length of the second
read_data(s) ==
    LET l == read_until_null(s) IN
    IF l.exc # "none" THEN l
    ELSE LET m == read_until_null(Session(l)) IN
         IF m.exc # "none" THEN m
         ELSE IF ~IsDecimal(l.data) THEN [m EXCEPT !.exc = "ValueError", !.data = <<>>]
         ELSE IF IntOf(l.data) = Len(m.data) THEN m
         ELSE [m EXCEPT !.exc = "ProtocolException", !.data = <<>>]

\* ---------------------------------------------------------------- send
\* H.base64_encode, on the bytes of the expression
B64Char(i) ==
    IF i < 26 THEN 65 + i
    ELSE IF i < 52 THEN 97 + (i - 26)
    ELSE IF i < 62 THEN 48 + (i - 52)
    ELSE IF i = 62 THEN 43 ELSE 47

RECURSIVE Base64(_)
Base64(b) ==
    IF b = <<>> THEN <<>>
    ELSE IF Len(b) = 1
    THEN <<B64Char(b[1] \div 4), B64Char((b[1] % 4) * 16), 61, 61>>
    ELSE IF Len(b) = 2
    THEN <<B64Char(b[1] \div 4), B64Char((b[1] % 4) * 16 + b[2] \div 16),
           B64Char((b[2] % 16) * 4), 61>>
    ELSE <<B64Char(b[1] \div 4), B64Char((b[1] % 4) * 16 + b[2] \div 16),
           B64Char((b[2] % 16) * 4 + b[3] \div 64), B64Char(b[3] % 64)>>
         \o Base64(SubSeq(b, 4, Len(b)))

base64_encode(text) == Base64(Utf8Encode(text))

\* str.strip(): blanks off both ends
RECURSIVE Strip(_)
Strip(t) ==
    IF t = <<>> THEN t
    ELSE IF Head(t) = SP THEN Strip(Tail(t))
    ELSE IF t[Len(t)] = SP THEN Strip(SubSeq(t, 1, Len(t) - 1))
    ELSE t

\* ' '.join(parts)
RECURSIVE Join(_)
Join(parts) ==
    IF parts = <<>> THEN <<>>
    ELSE IF Len(parts) = 1 THEN parts[1]
    ELSE parts[1] \o <<SP>> \o Join(Tail(parts))

\* variant: every part is stripped and kept, the empty ones too
StripParts_keep(parts) == [i \in 1..Len(parts) |-> Strip(parts[i])]

\* [part.strip() for part in parts if part.strip()]
RECURSIVE StripParts(_)
StripParts(parts) ==
    IF parts = <<>> THEN <<>>
    ELSE (IF Strip(Head(parts)) = <<>> THEN <<>> ELSE <<Strip(Head(parts))>>)
         \o StripParts(Tail(parts))

\* '-%s %s' % pair for each pair of kwargs.items()
RECURSIVE KwargParts(_)
KwargParts(kw) ==
    IF kw = <<>> THEN <<>>
    ELSE << <<45>> \o Head(kw).k \o <<SP>> \o Head(kw).v >> \o KwargParts(Tail(kw))

\* Python's None where a text is expected (no text holds a negative code point)
None == <<-1>>

\* the command string send() builds for transaction id i
BuildCommand(command, i, args, kw, expression) ==
    LET parts == <<command, <<45, 105, SP>> \o FormatInt(i)>> \o args \o KwargParts(kw)
        cmd   == Join(StripParts(parts))
    IN  IF expression # None /\ expression # <<>>
        THEN cmd \o <<SP, 45, 45, SP>> \o base64_encode(expression)
        ELSE cmd

\* a getter that returns the counter without advancing it
transaction_id_stale(t) == t

\* self.transaction_id (fget): pre-increment and return
transaction_id(t) == t + 1

\* self.socket.send(data) inside the try of send(): the exception it raises
\* and the bytes the socket took.  A blocking socket takes k >= 1 bytes.
socket_send(sock, pr, data, k) ==
    IF sock = "None" THEN [exc |-> "ProtocolConnectionException", written |-> <<>>]
    ELSE IF pr = "reset" THEN [exc |-> "ProtocolConnectionException", written |-> <<>>]
    ELSE [exc |-> "none", written |-> Take(data, k)]

\* --------------------------------------------------------------- clear
\* Protocol.clear on the fields f = [buffer, connected, listening, tid, socket].
\* close_raises: socket.close() raises (always when there is no socket, as in
\* __init__, and when the descriptor is invalid); the bare except swallows it.
\* clear() without the try/except around socket.close()
clear_unguarded(f, close_raises) ==
    IF close_raises
    THEN [buffer |-> <<>>, connected |-> FALSE, listening |-> FALSE, tid |-> 0,
          socket |-> f.socket, exc |-> "AttributeError"]
    ELSE [buffer |-> <<>>, connected |-> FALSE, listening |-> FALSE, tid |-> 0,
          socket |-> "None", exc |-> "none"]

clear(f, close_raises) ==
    [buffer |-> <<>>, connected |-> FALSE, listening |-> FALSE, tid |-> 0,
     socket |-> "None", exc |-> "none"]

Fields == [buffer |-> buffer, connected |-> connected, listening |-> listening,
           tid |-> tid, socket |-> socket]

\* what a call on the session did: the exception it raised ("none": it
\* returned), the text it returned, the text its debug() line logged, the bytes
\* it wrote to the socket, and whether it called recv()
Result(op, exc, value, logged, written, recvs) ==
    [op |-> op, exc |-> exc, value |-> value, logged |-> logged, written |-> written,
     recv |-> recvs > 0]

\* ------------------------------------------------------------- inputs
\* 'run'
Run == <<114, 117, 110>>
\* the flag/value pair n=a
KwN == [k |-> <<110>>, v |-> <<CharA>>]
Commands == {Run}
\* the flag/value pair v=0
KwV == [k |-> <<118>>, v |-> <<48>>]
ArgLists == {<<>>, << <<SP>>, <<CharA, SP>> >>}
KwargLists == {<<>>, <<KwN>>, <<KwN, KwV>>}
Expressions == {None, <<>>, <<CharA, SP>>}
\* the engine writes UTF-8 text: payloads are the encodings of the texts over
\* 'a' and U+00E9 that take at most MaxPayload bytes
PayloadChars == {CharA, EAcute}
Payloads == {b \in {Utf8Encode(t) : t \in SeqsUpTo(PayloadChars, MaxPayload)} :
                Len(b) <= MaxPayload}
CutLists(w) == SeqsUpTo(1..Len(w), MaxCuts)

\* the frame the engine writes for a payload: declared length, NUL, payload, NUL
Frame(declared, payload) == FormatInt(declared) \o <<NUL>> \o payload \o <<NUL>>

\* ---------------------------------------------------------------- Init
\* Protocol.__init__: clear() on an object that has no socket attribute yet
InitProtocol ==
    LET f == clear([buffer |-> <<>>, connected |-> FALSE, listening |-> FALSE,
                    tid |-> 0, socket |-> "None"], TRUE) IN
    /\ buffer = f.buffer
    /\ connected = f.connected
    /\ listening = f.listening
    /\ tid = f.tid
    /\ socket = f.socket
    /\ wire = <<>>
    /\ peer = "none"
    /\ pc = "idle"
    /\ last = Result("init", f.exc, None, None, <<>>, 0)
    /\ issued = <<>>

\* -------------------------------------------------------------- actions
\* Protocol.clear(), from any thread
Clear ==
    \E close_raises \in BOOLEAN :
        LET f == clear(Fields, close_raises \/ socket = "None") IN
        /\ buffer' = f.buffer
        /\ connected' = f.connected
        /\ listening' = f.listening
        /\ tid' = f.tid
        /\ socket' = f.socket
        /\ wire' = IF f.socket = "None" THEN <<>> ELSE wire
        /\ peer' = IF f.socket = "None" THEN "none" ELSE peer
        /\ last' = Result("clear", f.exc, None, None, <<>>, 0)
        /\ issued' = <<>>
        /\ UNCHANGED <<pc, treeVars>>

\* send() that tears the session down when the write fails
send_teardown(f, pr, command, args, kw, expression, k) ==
    LET i    == transaction_id(f.tid)
        cmd  == BuildCommand(command, i, args, kw, expression)
        data == data_write(cmd \o <<NUL>>)
        r    == socket_send(f.socket, pr, data, k)
    IN  IF r.exc = "none"
        THEN [f EXCEPT !.tid = i] @@
             [exc |-> r.exc, command |-> cmd, written |-> r.written, logged |-> cmd]
        ELSE [buffer |-> <<>>, connected |-> FALSE, listening |-> FALSE, tid |-> 0,
              socket |-> "None", exc |-> r.exc, command |-> cmd, written |-> r.written,
              logged |-> None]

\* Protocol.send(command, *args, **kwargs) on the fields f, the socket taking k
\* bytes: the id comes first, then the command string, then the write
send(f, pr, command, args, kw, expression, k) ==
    LET i    == transaction_id(f.tid)
        cmd  == BuildCommand(command, i, args, kw, expression)
        data == data_write(cmd \o <<NUL>>)
        r    == socket_send(f.socket, pr, data, k)
    IN  [f EXCEPT !.tid = i] @@
        [exc |-> r.exc, command |-> cmd, written |-> r.written,
         logged |-> IF r.exc = "none" THEN cmd ELSE None]

\* the <id> of the first '-i <id>' token of a command string
RECURSIVE TokenId(_)
TokenId(cmd) ==
    IF Len(cmd) < 4 THEN -1
    ELSE IF SubSeq(cmd, 1, 3) = <<45, 105, SP>>
    THEN LET n == CHOOSE m \in 0..(Len(cmd) - 3) :
                     /\ \A j \in 1..m : IsDigit(cmd[3 + j])
                     /\ (3 + m = Len(cmd) \/ ~IsDigit(cmd[4 + m]))
         IN  IF n = 0 THEN -1 ELSE IntOf(SubSeq(cmd, 4, 3 + n))
    ELSE TokenId(Tail(cmd))

\* the bytes send() hands to the socket when the counter is t
SendData(t, command, args, kw, expression) ==
    data_write(BuildCommand(command, transaction_id(t), args, kw, expression) \o <<NUL>>)

\* send() with its inputs drawn from the given sets; the socket takes all the
\* bytes or one of the short counts
SendOf(commands, arglists, kwarglists, expressions, short) ==
    /\ tid < MaxSends
    /\ UNCHANGED treeVars
    /\ \E command \in commands, args \in arglists, kw \in kwarglists,
          expression \in expressions :
        \E k \in {Len(SendData(tid, command, args, kw, expression))} \cup
                  (short \cap 1..Len(SendData(tid, command, args, kw, expression))) :
        LET r == send(Fields, peer, command, args, kw, expression, k) IN
        /\ buffer' = r.buffer
        /\ connected' = r.connected
        /\ listening' = r.listening
        /\ socket' = r.socket
        /\ tid' = r.tid
        /\ last' = Result("send", r.exc, None, r.logged, r.written, 0) @@
                   [built |-> r.command, id |-> r.tid, command |-> command, args |-> args,
                    kw |-> kw, expression |-> expression]
        /\ issued' = Append(issued, TokenId(r.command))
        /\ UNCHANGED <<wire, peer, pc>>

Send == SendOf(Commands, ArgLists, KwargLists, Expressions, 1..MaxShort)

SendRun == SendOf({Run}, {<<>>}, {<<>>}, {None}, {1})

\* ET.fromstring(data) succeeds only on a document, which starts with '<'
\* after optional blanks; no text over PayloadChars does
ParsesAsXml(text) == \E i \in 1..Len(text) : text[i] = 60 /\ \A j \in 1..(i-1) : text[j] = SP

\* Protocol.read(return_string), with the chunk sizes the next recv() calls
\* return drawn from cutlists.  A call that blocks in recv() has no outcome yet.
ReadOf(cutlists) ==
    \E cuts \in cutlists, return_string \in BOOLEAN :
        LET r == read_data([buffer |-> buffer, wire |-> wire, cuts |-> cuts, recvs |-> 0,
                            connected |-> connected, socket |-> socket, peer |-> peer])
            parse_error == r.exc = "none" /\ ~return_string /\ ~ParsesAsXml(r.data)
        IN
        /\ r.exc \notin {"blocked", "spins"}
        /\ buffer' = r.buffer
        /\ wire' = r.wire
        /\ last' = Result("read", IF parse_error THEN "ParseError" ELSE r.exc,
                          IF r.exc = "none" /\ ~parse_error THEN r.data ELSE None,
                          IF r.exc = "none" THEN r.data ELSE None, <<>>, r.recvs)
        /\ UNCHANGED <<connected, listening, socket, tid, peer, pc, issued, treeVars>>

Read == ReadOf(CutLists(wire))

ReadWhole == ReadOf({<<>>})

\* listen(), lines 170-183: create and bind the server socket
ListenBind ==
    /\ pc = "idle"
    /\ UNCHANGED treeVars
    /\ \E outcome \in {"ok", "socket.error", "ProtocolConnectionException"} :
        IF outcome = "ok"
        THEN /\ listening' = TRUE
             /\ socket' = "None"
             /\ wire' = <<>>
             /\ peer' = "none"
             /\ pc' = "accept"
             /\ last' = Result("listen_bind", "none", None, None, <<>>, 0)
             /\ UNCHANGED <<buffer, connected, tid, issued>>
        ELSE /\ last' = Result("listen_bind", outcome, None, None, <<>>, 0)
             /\ UNCHANGED <<buffer, connected, listening, socket, tid, wire, peer, pc, issued>>

\* the accept loop as 'while True': it goes on polling whatever listening is
ListenPoll_unconditional ==
    /\ pc = "accept"
    /\ UNCHANGED treeVars
    /\ \E accepted \in BOOLEAN :
         IF accepted
         THEN /\ socket' = "sock"
              /\ listening' = FALSE
              /\ wire' = <<>>
              /\ peer' = "up"
              /\ last' = Result("listen_accept", "none", None, None, <<>>, 0)
              /\ UNCHANGED <<buffer, connected, tid, pc, issued>>
         ELSE /\ last' = Result("listen_timeout", "none", None, None, <<>>, 0)
              /\ UNCHANGED <<buffer, connected, listening, socket, tid, wire, peer, pc, issued>>

\* listen(), lines 186-191: one turn of the accept loop
ListenPoll ==
    /\ pc = "accept"
    /\ UNCHANGED treeVars
    /\ IF listening
       THEN \E accepted \in BOOLEAN :
            IF accepted
            THEN /\ socket' = "sock"
                 /\ listening' = FALSE
                 /\ wire' = <<>>
                 /\ peer' = "up"
                 /\ last' = Result("listen_accept", "none", None, None, <<>>, 0)
                 /\ UNCHANGED <<buffer, connected, tid, pc, issued>>
            ELSE /\ last' = Result("listen_timeout", "none", None, None, <<>>, 0)
                 /\ UNCHANGED <<buffer, connected, listening, socket, tid, wire, peer, pc, issued>>
       ELSE /\ pc' = "check"
            /\ last' = Result("listen_exit", "none", None, None, <<>>, 0)
            /\ UNCHANGED <<buffer, connected, listening, socket, tid, wire, peer, issued>>

\* listen(), line 194: if self.socket
ListenCheck ==
    /\ pc = "check"
    /\ UNCHANGED treeVars
    /\ pc' = IF socket # "None" THEN "connect" ELSE "reset"
    /\ last' = Result("listen_check", "none", None, None, <<>>, 0)
    /\ UNCHANGED <<buffer, connected, listening, socket, tid, wire, peer, issued>>

\* listen(), lines 195-196 and 202-209
ListenConnect ==
    /\ pc = "connect"
    /\ UNCHANGED treeVars
    /\ connected' = TRUE
    /\ pc' = "idle"
    /\ last' = Result("listen_return",
                      IF socket = "None" THEN "AttributeError" ELSE "none", None, None, <<>>, 0)
    /\ UNCHANGED <<buffer, listening, socket, tid, wire, peer, issued>>

\* listen(), lines 198-199 and 202-209
ListenReset ==
    /\ pc = "reset"
    /\ UNCHANGED treeVars
    /\ connected' = FALSE
    /\ listening' = FALSE
    /\ pc' = "idle"
    /\ last' = Result("listen_return", "none", None, None, <<>>, 0)
    /\ UNCHANGED <<buffer, socket, tid, wire, peer, issued>>

\* the engine writes one frame, its declared length right or wrong
EngineWriteOf(payloads, lengths) ==
    /\ socket = "sock"
    /\ peer = "up"
    /\ UNCHANGED treeVars
    /\ \E payload \in payloads, declared \in lengths :
        /\ Len(wire) + Len(Frame(declared, payload)) <= MaxWire
        /\ wire' = wire \o Frame(declared, payload)
    /\ last' = Result("engine_write", "none", None, None, <<>>, 0)
    /\ UNCHANGED <<buffer, connected, listening, socket, tid, peer, pc, issued>>

EngineWrite == EngineWriteOf(Payloads, 0..MaxPayload)

EngineWriteShort == EngineWriteOf({<<>>, <<CharA>>}, 0..1)

\* the connection is reset: what was in flight is lost
PeerReset ==
    /\ socket = "sock"
    /\ peer = "up"
    /\ UNCHANGED treeVars
    /\ peer' = "reset"
    /\ wire' = <<>>
    /\ last' = Result("peer_reset", "none", None, None, <<>>, 0)
    /\ UNCHANGED <<buffer, connected, listening, socket, tid, pc, issued>>

\* the tree builder has not run
NoCall == [fn |-> "none", exc |-> "none", trace |-> <<>>, tree |-> <<>>, lines |-> <<>>,
           errors |-> 0, logged |-> <<>>, raised |-> "none", top |-> <<>>, depth |-> 0]

\* S.BREAKPOINT is None
NoBreakpoints == [none |-> TRUE, files |-> <<>>]

\* the threads that share the session
Threads == {1, 2}

\* no thread is inside read()
NoReader == [at |-> "idle", length |-> None]

InitSide ==
    /\ S_BREAKPOINT = NoBreakpoints
    /\ threadpc = [t \in Threads |-> "idle"]
    /\ ops = <<>>
    /\ reader = NoReader

InitTreeIdle ==
    /\ InitSide
    /\ settings = [max_depth |-> [t |-> "int", v |-> 0],
                   max_children |-> [t |-> "int", v |-> 0], hide_password |-> TRUE]
    /\ S_SESSION = "session"
    /\ S_CONTEXT_DATA = <<>>
    /\ S_BREAKPOINT_ROW = "None"
    /\ phase = "idle"
    /\ call = NoCall

Init == InitProtocol /\ InitTreeIdle

\* listen() in its thread
Listen == ListenBind \/ ListenPoll \/ ListenCheck \/ ListenConnect \/ ListenReset

\* the session's life cycle and its commands
NextSend == Clear \/ Send \/ Listen \/ PeerReset

SpecSend == Init /\ [][NextSend]_vars

\* the session's life cycle and its responses
NextFrame == Clear \/ Read \/ Listen \/ EngineWrite \/ PeerReset

SpecFrame == Init /\ [][NextFrame]_vars

\* every call on the session, with the smallest inputs
NextSession == Clear \/ SendRun \/ ReadWhole \/ Listen \/ EngineWriteShort \/ PeerReset

\* the thread that runs listen() is scheduled again and again, and accept()
\* returns after its timeout of one second (l.176)
ListenFairness ==
    /\ WF_vars(ListenPoll)
    /\ WF_vars(ListenCheck)
    /\ WF_vars(ListenConnect)
    /\ WF_vars(ListenReset)

SpecSession == Init /\ [][NextSession]_vars

\* the same steps, with the listening thread scheduled fairly
SpecListen == Init /\ [][NextSession]_vars /\ ListenFairness

\* ======================================================= property tree
\* src/xdebug/dbgp.py: the names it defines, with their values
dbgp_py ==
    [STATUS |-> "status",
     FEATURE_GET |-> "feature_get",
     FEATURE_SET |-> "feature_set",
     RUN |-> "run",
     STEP_INTO |-> "step_into",
     STEP_OVER |-> "step_over",
     STEP_OUT |-> "step_out",
     STOP |-> "stop",
     DETACH |-> "detach",
     BREAKPOINT_SET |-> "breakpoint_set",
     BREAKPOINT_GET |-> "breakpoint_get",
     BREAKPOINT_UPDATE |-> "breakpoint_update",
     BREAKPOINT_REMOVE |-> "breakpoint_remove",
     BREAKPOINT_LIST |-> "breakpoint_list",
     CONTEXT_NAMES |-> "context_names",
     CONTEXT_GET |-> "context_get",
     STACK_DEPTH |-> "stack-depth",
     STACK_GET |-> "stack_get",
     STATUS_STARTING |-> "starting",
     STATUS_STOPPING |-> "stopping",
     STATUS_STOPPED |-> "stopped",
     STATUS_RUNNING |-> "running",
     STATUS_BREAK |-> "break",
     REASON_OK |-> "ok",
     REASON_ERROR |-> "error",
     REASON_ABORTED |-> "aborted",
     REASON_EXCEPTION |-> "exception",
     ATTRIBUTE_STATUS |-> "status",
     ATTRIBUTE_REASON |-> "reason",
     ELEMENT_INIT |-> "init",
     ELEMENT_BREAKPOINT |-> "xdebug:message",
     ELEMENT_PROPERTY |-> "property",
     ELEMENT_STACK |-> "stack",
     INIT_APPID |-> "appid",
     INIT_IDEKEY |-> "idekey",
     INIT_SESSION |-> "session",
     INIT_THREAD |-> "thread",
     INIT_PARENT |-> "parent",
     INIT_LANGUAGE |-> "language",
     INIT_PROTOCOL_VERSION |-> "protocol_version",
     INIT_FILEURI |-> "fileuri",
     BREAKPOINT_TYPE |-> "type",
     BREAKPOINT_FILENAME |-> "filename",
     BREAKPOINT_LINENO |-> "lineno",
     BREAKPOINT_STATE |-> "state",
     BREAKPOINT_FUNCTION |-> "function",
     BREAKPOINT_TEMPORARY |-> "temporary",
     BREAKPOINT_HIT_COUNT |-> "hit_count",
     BREAKPOINT_HIT_VALUE |-> "hit_value",
     BREAKPOINT_HIT_CONDITION |-> "hit_condition",
     BREAKPOINT_EXCEPTION |-> "exception",
     BREAKPOINT_EXPRESSION |-> "expression",
     PROPERTY_NAME |-> "name",
     PROPERTY_FULLNAME |-> "fullname",
     PROPERTY_CLASSNAME |-> "classname",
     PROPERTY_PAGE |-> "page",
     PROPERTY_PAGESIZE |-> "pagesize",
     PROPERTY_TYPE |-> "type",
     PROPERTY_FACET |-> "facet",
     PROPERTY_SIZE |-> "size",
     PROPERTY_CHILDREN |-> "children",
     PROPERTY_NUMCHILDREN |-> "numchildren",
     PROPERTY_KEY |-> "key",
     PROPERTY_ADDRESS |-> "address",
     PROPERTY_ENCODING |-> "encoding",
     STACK_LEVEL |-> "level",
     STACK_TYPE |-> "type",
     STACK_FILENAME |-> "filename",
     STACK_LINENO |-> "lineno",
     STACK_WHERE |-> "where",
     STACK_CMDBEGIN |-> "cmdbegin",
     STACK_CMDEND |-> "cmdend"]

\* variant: the module also defines the four names session.py reads at
\* l.282, 322, 326, 332, 345 and 402
dbgp_complete ==
    dbgp_py @@ [FEATURE_NAME_MAXCHILDREN |-> "max_children",
                PROPERTY_GET |-> "property_get",
                ELEMENT_PATH_PROPERTY |-> "{urn:debugger_protocol_v1}property",
                ELEMENT_PATH_STACK |-> "{urn:debugger_protocol_v1}stack"]

\* the module dbgp as session.py imports it
dbgp == dbgp_py

\* dbgp.<name> has a value; any other name raises AttributeError when read
Defined(name) == name \in DOMAIN dbgp

\* A response document is the sequence of the child elements of its root.
\* An element: its tag, its attributes ("None": absent; fullname, numchildren
\* and text are texts or None), and its own child elements.
Element(tag, fullname, type, children, numchildren, classname, text, kids) ==
    [tag |-> tag, fullname |-> fullname, type |-> type, children |-> children,
     numchildren |-> numchildren, classname |-> classname, text |-> text, kids |-> kids]

\* the expansion of a node: None (not expanded) or a mapping, kept as the
\* sequence of its nodes in insertion order
NotExpanded == [expanded |-> FALSE, nodes |-> <<>>]
Expanded(nodes) == [expanded |-> TRUE, nodes |-> nodes]

\* name.count("::"): the non-overlapping occurrences, left to right
RECURSIVE CountStatic(_)
CountStatic(name) ==
    IF Len(name) < 2 THEN 0
    ELSE IF name[1] = 58 /\ name[2] = 58 THEN 1 + CountStatic(Tail(Tail(name)))
    ELSE CountStatic(Tail(name))

\* H.base64_decode: the index of a base64 character, -1 for any other
B64Index(c) ==
    IF c >= 65 /\ c <= 90 THEN c - 65
    ELSE IF c >= 97 /\ c <= 122 THEN c - 97 + 26
    ELSE IF c >= 48 /\ c <= 57 THEN c - 48 + 52
    ELSE IF c = 43 THEN 62
    ELSE IF c = 47 THEN 63 ELSE -1

RECURSIVE B64Groups(_)
B64Groups(t) ==
    IF t = <<>> THEN <<>>
    ELSE LET a == B64Index(t[1])  b == B64Index(t[2]) IN
         IF t[3] = 61 THEN <<a * 4 + b \div 16>>
         ELSE LET c == B64Index(t[3]) IN
              IF t[4] = 61 THEN <<a * 4 + b \div 16, (b % 16) * 16 + c \div 4>>
              ELSE <<a * 4 + b \div 16, (b % 16) * 16 + c \div 4,
                     (c % 4) * 64 + B64Index(t[4])>> \o B64Groups(SubSeq(t, 5, Len(t)))

\* the decoded text, or ok = FALSE where b64decode raises (a length that is
\* no multiple of four, padding out of place, a character outside the alphabet)
base64_decode(t) ==
    IF /\ Len(t) % 4 = 0
       /\ \A i \in 1..Len(t) :
            \/ B64Index(t[i]) >= 0
            \/ t[i] = 61 /\ i >= Len(t) - 1 /\ (i = Len(t) \/ t[Len(t)] = 61)
    THEN Utf8Decode(B64Groups(t))
    ELSE [ok |-> FALSE, text |-> <<>>]

\* a configured value is an integer other than 0
IsLimit(setting) == setting.t = "int" /\ setting.v # 0

\* a text is true in a condition when it is neither None nor empty
Truthy(text) == text # None /\ text # <<>>

\* str.lower() on the letters A-Z
Lower(text) == [i \in 1..Len(text) |-> IF text[i] >= 65 /\ text[i] <= 90 THEN text[i] + 32 ELSE text[i]]

\* 'password'
PasswordWord == <<112, 97, 115, 115, 119, 111, 114, 100>>

\* variant: the name is searched as it is written
HasPassword_exact(name) ==
    \E i \in 1..Len(name) :
        i + Len(PasswordWord) - 1 <= Len(name)
        /\ SubSeq(name, i, i + Len(PasswordWord) - 1) = PasswordWord

\* name.lower().find('password') != -1
HasPassword(name) ==
    \E i \in 1..Len(name) :
        i + Len(PasswordWord) - 1 <= Len(name)
        /\ SubSeq(Lower(name), i, i + Len(PasswordWord) - 1) = PasswordWord

\* properties[name] = node: a new key goes last, a known key keeps its place
Store(props, node) ==
    IF \E i \in 1..Len(props) : props[i].name = node.name
    THEN [i \in 1..Len(props) |-> IF props[i].name = node.name THEN node ELSE props[i]]
    ELSE Append(props, node)

\* one call on S.SESSION from the tree builder, appended to the calls so far;
\* the call numbered w.fail.at raises w.fail.kind
Op(op, cmd, n, v, depth) == [op |-> op, cmd |-> cmd, n |-> n, v |-> v, depth |-> depth]

SessionSend(w, cmd, n, v, depth) ==
    [w EXCEPT !.trace = Append(@, Op("send", cmd, n, v, depth)),
              !.exc = IF Len(w.trace) + 1 = w.fail.at
                      THEN "ProtocolConnectionException" ELSE "none"]

SessionRead(w, depth) ==
    [w EXCEPT !.trace = Append(@, Op("read", "", None, None, depth)),
              !.exc = IF Len(w.trace) + 1 = w.fail.at THEN w.fail.kind ELSE "none"]

\* what the engine answers to property_get -n name
EngineResponse(e, name) ==
    IF e.mode = "match"
    THEN << Element(dbgp.ELEMENT_PROPERTY, name, "array", "1", <<49>>, "None", None, e.kids) >>
    ELSE IF e.mode = "other_name"
    THEN << Element(dbgp.ELEMENT_PROPERTY, None, "array", "1", <<49>>, "None", None, e.kids) >>
    ELSE IF e.mode = "other_tag"
    THEN << Element("error", None, "None", "None", None, "None", None, <<>>) >>
    ELSE <<>>

\* the for loop of get_response_properties over the elements left, at the
\* given depth, with the properties stored so far; nest counts the frames of
\* get_response_properties on the stack.  e = [max_depth, max_children,
\* hide_password, session, mode, kids].
RECURSIVE ResponseLoop(_, _, _, _, _, _)
RECURSIVE get_property_children(_, _, _, _, _, _)

\* variant: the depth is never tested
TooDeep_never(e, depth) == FALSE

\* the test that stops extraction beyond max_depth (line 347)
TooDeep(e, depth) == IsLimit(e.max_depth) /\ depth > e.max_depth.v

\* variant: only the bare '::' is skipped
Ignored_bare(name) == name = <<58, 58>>

\* the names get_response_properties does not store (lines 367-372)
Ignored(name) == name = <<58, 58>> \/ CountStatic(name) > 1

\* line 384: the node gets the children c.props, unless the expansion raised
Attach(props, node, c) ==
    [props |-> Store(props, IF c.w.exc # "none" THEN node
                            ELSE [node EXCEPT !.children = Expanded(c.props)]),
     w |-> c.w]

\* one pass of the loop body of get_response_properties (lines 345-388) on
\* the element child: the properties and the calls on the session after it
LoopBody(child, depth, props, w, e, nest) ==
    LET same == [props |-> props, w |-> w] IN
    IF child.tag # dbgp.ELEMENT_PROPERTY /\ ~Defined("ELEMENT_PATH_PROPERTY")
    THEN [same EXCEPT !.w.exc = "AttributeError"]
    ELSE IF child.tag # dbgp.ELEMENT_PROPERTY /\ child.tag # dbgp["ELEMENT_PATH_PROPERTY"]
    THEN same
    ELSE IF TooDeep(e, depth)
    THEN same
    ELSE LET decoded == base64_decode(child.text)
             raw     == IF ~Truthy(child.text) THEN None
                        ELSE IF decoded.ok THEN decoded.text ELSE child.text
             name    == child.fullname
         IN
         IF ~Truthy(name) \/ Ignored(name)
         THEN same
         ELSE LET value == IF e.hide_password /\ HasPassword(name)
                           THEN <<42, 42, 42, 42, 42, 42>> ELSE raw
                  type  == IF child.classname # "None" /\ child.type = "object"
                           THEN child.classname ELSE child.type
                  node  == [name |-> name, type |-> type, value |-> value,
                            numchildren |-> child.numchildren,
                            children |-> NotExpanded]
              IN
              IF child.children = "None" \/ child.children = ""
              THEN [props |-> Store(props, node), w |-> w]
              ELSE Attach(props, node,
                          get_property_children(name, child.numchildren, depth + 1,
                                                w, e, nest))

\* the loop goes on with the elements left unless the pass raised
LoopNext(step, rest, depth, e, nest) ==
    IF step.w.exc # "none" THEN step
    ELSE ResponseLoop(rest, depth, step.props, step.w, e, nest)

ResponseLoop(elems, depth, props, w, e, nest) ==
    IF elems = <<>> THEN [props |-> props, w |-> w]
    ELSE LoopNext(LoopBody(Head(elems), depth, props, w, e, nest), Tail(elems),
                  depth, e, nest)

\* get_response_properties(response, depth)
get_response_properties(response, depth, w, e, nest) ==
    IF nest > MaxNesting
    THEN [props |-> <<>>, w |-> [w EXCEPT !.exc = "RecursionError"]]
    ELSE ResponseLoop(response, depth, <<>>, w, e, nest)

\* the for loop of get_property_children over the elements of the response
RECURSIVE FindProperty(_, _, _, _, _, _)
FindProperty(elems, property_name, depth, w, e, nest) ==
    IF elems = <<>> THEN [props |-> <<>>, w |-> w]
    ELSE IF Head(elems).tag # dbgp.ELEMENT_PROPERTY /\ ~Defined("ELEMENT_PATH_PROPERTY")
    THEN [props |-> <<>>, w |-> [w EXCEPT !.exc = "AttributeError"]]
    ELSE IF /\ \/ Head(elems).tag = dbgp.ELEMENT_PROPERTY
               \/ Head(elems).tag = dbgp["ELEMENT_PATH_PROPERTY"]
            /\ property_name = Head(elems).fullname
    THEN get_response_properties(Head(elems).kids, depth, w, e, nest + 1)
    ELSE FindProperty(Tail(elems), property_name, depth, w, e, nest)

\* get_property_children(property_name, numchildren, depth); e.session tells
\* whether S.SESSION is set
get_property_children(property_name, numchildren, depth, w, e, nest) ==
    LET fail == [props |-> <<>>, w |-> w] IN
    IF IsLimit(e.max_children) /\ numchildren = None
    THEN [fail EXCEPT !.w.exc = "TypeError"]
    ELSE IF IsLimit(e.max_children) /\ ~IsDecimal(numchildren)
    THEN [fail EXCEPT !.w.exc = "ValueError"]
    ELSE IF ~e.session THEN fail
    ELSE IF ~Defined("FEATURE_NAME_MAXCHILDREN")
    THEN [fail EXCEPT !.w.exc = "AttributeError"]
    ELSE LET v  == IF IsLimit(e.max_children) /\ IntOf(numchildren) > e.max_children.v
                   THEN FormatInt(e.max_children.v) ELSE numchildren
             s1 == SessionSend(w, dbgp.FEATURE_SET, dbgp["FEATURE_NAME_MAXCHILDREN"], v,
                               depth - 1)
             r1 == SessionRead(s1, depth - 1)
         IN  IF s1.exc # "none" THEN [fail EXCEPT !.w = s1]
             ELSE IF r1.exc # "none" THEN [fail EXCEPT !.w = r1]
             ELSE IF ~Defined("PROPERTY_GET")
             THEN [fail EXCEPT !.w = [r1 EXCEPT !.exc = "AttributeError"]]
             ELSE LET s2 == SessionSend(r1, dbgp["PROPERTY_GET"], property_name, None,
                                        depth - 1)
                      r2 == SessionRead(s2, depth - 1)
                  IN  IF s2.exc # "none" THEN [fail EXCEPT !.w = s2]
                      ELSE IF r2.exc # "none" THEN [fail EXCEPT !.w = r2]
                      ELSE FindProperty(EngineResponse(e, property_name), property_name,
                                        depth, r2, e, nest)

\* str.replace("\r\n", "\n").replace("\n", " ") on a value
RECURSIVE OneLine(_)
OneLine(text) ==
    IF text = <<>> THEN <<>>
    ELSE IF Len(text) >= 2 /\ text[1] = 13 /\ text[2] = 10 THEN <<SP>> \o OneLine(Tail(Tail(text)))
    ELSE IF text[1] = 10 THEN <<SP>> \o OneLine(Tail(text))
    ELSE <<Head(text)>> \o OneLine(Tail(text))

\* H.is_digit
is_digit(text) == text # None /\ IsDecimal(text)

Line(indent, kind, name, text) == [indent |-> indent, kind |-> kind, name |-> name, text |-> text]

\* generate_context_output(context, indent) on the nodes of a mapping: the
\* lines, or the TypeError of a concatenation with None
RECURSIVE generate_context_output(_, _)
generate_context_output(nodes, indent) ==
    IF nodes = <<>> THEN [exc |-> "none", lines |-> <<>>]
    ELSE LET variable == Head(nodes)
             rest     == generate_context_output(Tail(nodes), indent)
         IN
         IF variable.type = "None" THEN [exc |-> "TypeError", lines |-> <<>>]
         ELSE IF Truthy(variable.value)
         THEN [exc |-> rest.exc,
               lines |-> <<Line(indent, "value", variable.name, OneLine(variable.value))>>
                         \o rest.lines]
         ELSE IF variable.children.expanded
         THEN IF variable.numchildren = None THEN [exc |-> "TypeError", lines |-> <<>>]
              ELSE LET inner   == generate_context_output(variable.children.nodes, indent + 1)
                       limited == IF is_digit(variable.numchildren)
                                  THEN IntOf(variable.numchildren) # Len(variable.children.nodes)
                                  ELSE Len(variable.children.nodes) > 0
                                       /\ ~Truthy(variable.numchildren)
                   IN  IF inner.exc # "none" THEN inner
                       ELSE [exc |-> rest.exc,
                             lines |-> <<Line(indent, "container", variable.name,
                                              variable.numchildren)>>
                                       \o inner.lines
                                       \o (IF limited
                                           THEN <<Line(indent + 1, "ellipsis", None, None)>>
                                           ELSE <<>>)
                                       \o rest.lines]
         ELSE [exc |-> rest.exc,
               lines |-> <<Line(indent, "empty", variable.name, None)>> \o rest.lines]

\* the calls on the session start with none made
World(fail) == [trace |-> <<>>, exc |-> "none", fail |-> fail]

\* the try block of get_context_values: the calls on the session, the exception
\* that leaves the block, the context stored and the text returned
ContextValues(top, e, fail) ==
    LET stop(w) == [w |-> w, stored |-> FALSE, tree |-> <<>>, lines |-> <<>>] IN
    IF ~Defined("FEATURE_NAME_MAXCHILDREN")
    THEN stop([World(fail) EXCEPT !.exc = "AttributeError"])
    ELSE
    LET s1 == SessionSend(World(fail), dbgp.FEATURE_SET, dbgp["FEATURE_NAME_MAXCHILDREN"],
                          <<48>>, -1)
        r1 == SessionRead(s1, -1)
        s2 == SessionSend(r1, dbgp.CONTEXT_GET, None, None, -1)
        r2 == SessionRead(s2, -1)
    IN  IF s1.exc # "none" THEN stop(s1)
        ELSE IF r1.exc # "none" THEN stop(r1)
        ELSE IF s2.exc # "none" THEN stop(s2)
        ELSE IF r2.exc # "none" THEN stop(r2)
        ELSE LET c == get_response_properties(top, 0, r2, e, 1) IN
             IF c.w.exc # "none" THEN stop(c.w)
             ELSE LET out == generate_context_output(c.props, 0) IN
                  [w |-> [c.w EXCEPT !.exc = out.exc], stored |-> TRUE,
                   tree |-> c.props, lines |-> out.lines]

\* except (socket.error) only
Caught_narrow(exc) == exc = "socket.error"

\* except (socket.error, ProtocolConnectionException)
Caught(exc) == exc \in {"socket.error", "ProtocolConnectionException"}

\* connection_error(message): sublime.error_message once, info() and debug()
\* once each, S.SESSION.clear() on the session, then the resets of the finally
\* clause; close_raises: socket.close() raises inside clear()
connection_error(c, close_raises) ==
    LET f == clear(Fields, close_raises \/ socket = "None") IN
    /\ buffer' = f.buffer
    /\ connected' = f.connected
    /\ listening' = f.listening
    /\ tid' = f.tid
    /\ socket' = f.socket
    /\ wire' = <<>>
    /\ peer' = "none"
    /\ last' = Result("clear", f.exc, None, None, <<>>, 0)
    /\ issued' = <<>>
    /\ UNCHANGED pc
    /\ S_SESSION' = "None"
    /\ S_BREAKPOINT_ROW' = "None"
    /\ S_CONTEXT_DATA' = <<>>
    /\ call' = [c EXCEPT !.exc = "none", !.errors = @ + 1,
                         !.logged = @ \o <<"info", "debug">>,
                         !.tree = <<>>, !.lines = <<>>]

\* the for loop of get_stack_values: one line per stack element
RECURSIVE StackLoop(_, _)
StackLoop(elems, w) ==
    IF elems = <<>> THEN [w |-> w, lines |-> <<>>]
    ELSE IF Head(elems).tag # dbgp.ELEMENT_STACK /\ ~Defined("ELEMENT_PATH_STACK")
    THEN [w |-> [w EXCEPT !.exc = "AttributeError"], lines |-> <<>>]
    ELSE LET rest == StackLoop(Tail(elems), w) IN
         [w |-> rest.w,
          lines |-> IF rest.w.exc # "none" THEN <<>>
                    ELSE IF \/ Head(elems).tag = dbgp.ELEMENT_STACK
                            \/ Head(elems).tag = dbgp["ELEMENT_PATH_STACK"]
                    THEN <<Line(0, "stack", None, FormatInt(Head(elems).level))>> \o rest.lines
                    ELSE rest.lines]

\* variant: stack_get is sent a second time before the answer is read
StackValues_pipelined(doc, fail) ==
    LET s1 == SessionSend(World(fail), dbgp.STACK_GET, None, None, -1)
        s2 == SessionSend(s1, dbgp.STACK_GET, None, None, -1)
        r1 == SessionRead(s2, -1)
    IN  IF r1.exc # "none" THEN [w |-> r1, lines |-> <<>>]
        ELSE StackLoop(doc, r1)

\* the try block of get_stack_values
StackValues(doc, fail) ==
    LET s1 == SessionSend(World(fail), dbgp.STACK_GET, None, None, -1)
        r1 == SessionRead(s1, -1)
    IN  IF s1.exc # "none" THEN [w |-> s1, lines |-> <<>>]
        ELSE IF r1.exc # "none" THEN [w |-> r1, lines |-> <<>>]
        ELSE StackLoop(doc, r1)

\* ------------------------------------------------------------ tree inputs
MaxTop == 1
MaxKids == 1

NameA == <<CharA>>
NameStatic == <<58, 58>>
NameOneStatic == <<65, 58, 58, 98>>
NameTwoStatic == <<65, 58, 58, 98, 58, 58, 99>>
NameColons == <<58, 58, 58>>
NamePassword == <<80>> \o Tail(PasswordWord)

\* 'MQ==', the base64 text of '1'
TextOne == <<77, 81, 61, 61>>

Leaf(name) == Element(dbgp.ELEMENT_PROPERTY, name, "int", "0", <<48>>, "None", TextOne, <<>>)
Parent(name) == Element(dbgp.ELEMENT_PROPERTY, name, "array", "1", <<49>>, "None", None, <<>>)
Many(name) == Element(dbgp.ELEMENT_PROPERTY, name, "array", "1", <<50>>, "None", None, <<>>)
Object(name) == Element(dbgp.ELEMENT_PROPERTY, name, "object", "1", <<49>>, "Cls", None, <<>>)
Untyped(name) == Element(dbgp.ELEMENT_PROPERTY, name, "None", "None", None, "None", None, <<>>)
Uncounted(name) == Element(dbgp.ELEMENT_PROPERTY, name, "array", "1", None, "None", None, <<>>)
Miscounted(name) == Element(dbgp.ELEMENT_PROPERTY, name, "array", "1", <<120>>, "None", None, <<>>)
Inline(name) ==
    Element(dbgp.ELEMENT_PROPERTY, name, "array", "1", <<49>>, "None", None, <<Untyped(NameStatic)>>)
Foreign == Element("error", None, "None", "None", None, "None", None, <<>>)

TopElements ==
    {Leaf(NameA), Parent(NameA), Many(NameA), Object(NameOneStatic), Parent(NameStatic),
     Parent(NameTwoStatic), Leaf(NameColons), Leaf(NamePassword), Untyped(NameA),
     Uncounted(NameA), Miscounted(NameA), Inline(NameA), Leaf(None), Foreign}

KidElements == {Leaf(NameA), Parent(NameTwoStatic)}

\* the documents: every one of up to MaxTop elements, and two with a name twice
TopDocs ==
    SeqsUpTo(TopElements, MaxTop)
    \cup {<<Leaf(NameA), Parent(NameA)>>, <<Parent(NameStatic), Untyped(NameA)>>}
KidSeqs == SeqsUpTo(KidElements, MaxKids)
Modes == {"match", "other_name", "other_tag", "empty"}

StackElement(tag, level) == [tag |-> tag, level |-> level]
StackDocs == SeqsUpTo({StackElement(dbgp.ELEMENT_STACK, 0), StackElement(dbgp.ELEMENT_STACK, 1),
                       StackElement("error", 0)}, MaxTop + 1)

NoFailure == [at |-> 0, kind |-> "none"]
Failures ==
    {NoFailure,
     [at |-> 1, kind |-> "ProtocolConnectionException"],
     [at |-> 2, kind |-> "socket.error"],
     [at |-> 2, kind |-> "ProtocolException"],
     [at |-> 2, kind |-> "ProtocolConnectionException"]}

IntSetting(n) == [t |-> "int", v |-> n]
StrSetting(n) == [t |-> "str", v |-> n]

SettingsSet ==
    [max_depth : {IntSetting(0), IntSetting(1), IntSetting(2), StrSetting(1)},
     max_children : {IntSetting(0), IntSetting(1)},
     hide_password : BOOLEAN]

Env(mode, kids) ==
    [max_depth |-> settings.max_depth, max_children |-> settings.max_children,
     hide_password |-> settings.hide_password, session |-> S_SESSION # "None",
     mode |-> mode, kids |-> kids]

\* the depth get_response_properties is given
MaxDepthArg == 3

\* a context stored by an earlier get_context_values()
CachedContext ==
    << [name |-> NameA, type |-> "int", value |-> <<49>>, numchildren |-> None,
        children |-> NotExpanded] >>

\* a session an engine is connected to, after one command, with text of a
\* later response left in its buffer
InitConnected ==
    /\ buffer = <<CharA>>
    /\ connected = TRUE
    /\ listening = FALSE
    /\ tid = 1
    /\ socket = "sock"
    /\ wire = <<>>
    /\ peer = "up"
    /\ pc = "idle"
    /\ last = Result("init", "none", None, None, <<>>, 0)
    /\ issued = <<>>

InitTree ==
    /\ S_SESSION \in {"None", "session"}
    /\ IF S_SESSION = "session" THEN InitConnected ELSE InitProtocol
    /\ InitSide
    /\ settings \in SettingsSet
    /\ S_CONTEXT_DATA = IF S_SESSION = "session" THEN CachedContext ELSE <<>>
    /\ S_BREAKPOINT_ROW = IF S_SESSION = "session" THEN "row" ELSE "None"
    /\ phase = "idle"
    /\ call = NoCall

\* ----------------------------------------------------------- tree actions
\* get_context_values()
GetContextValues ==
    /\ phase = "idle"
    /\ phase' = "done"
    /\ UNCHANGED <<settings, sideVars>>
    /\ IF S_SESSION = "None"
       THEN /\ call' = [NoCall EXCEPT !.fn = "get_context_values"]
            /\ UNCHANGED <<protocolVars, S_SESSION, S_CONTEXT_DATA, S_BREAKPOINT_ROW>>
       ELSE \E top \in TopDocs, mode \in Modes, kids \in KidSeqs, fail \in Failures :
              LET r == ContextValues(top, Env(mode, kids), fail)
                  c == [fn |-> "get_context_values", exc |-> r.w.exc, trace |-> r.w.trace,
                        tree |-> r.tree, lines |-> r.lines, errors |-> 0, logged |-> <<>>,
                        raised |-> r.w.exc,
                        top |-> top, depth |-> 0]
              IN  IF Caught(r.w.exc)
                  THEN \E close_raises \in BOOLEAN : connection_error(c, close_raises)
                  ELSE /\ call' = c
                       /\ S_CONTEXT_DATA' = IF r.stored THEN r.tree ELSE S_CONTEXT_DATA
                       /\ UNCHANGED <<protocolVars, S_SESSION, S_BREAKPOINT_ROW>>

\* get_stack_values()
GetStackValues ==
    /\ phase = "idle"
    /\ phase' = "done"
    /\ UNCHANGED <<settings, sideVars>>
    /\ IF S_SESSION = "None"
       THEN /\ call' = [NoCall EXCEPT !.fn = "get_stack_values"]
            /\ UNCHANGED <<protocolVars, S_SESSION, S_CONTEXT_DATA, S_BREAKPOINT_ROW>>
       ELSE \E doc \in StackDocs, fail \in Failures :
              LET r == StackValues(doc, fail)
                  c == [fn |-> "get_stack_values", exc |-> r.w.exc, trace |-> r.w.trace,
                        tree |-> <<>>, lines |-> r.lines, errors |-> 0, logged |-> <<>>,
                        raised |-> r.w.exc,
                        top |-> doc, depth |-> 0]
              IN  IF Caught(r.w.exc)
                  THEN \E close_raises \in BOOLEAN : connection_error(c, close_raises)
                  ELSE /\ call' = c
                       /\ UNCHANGED <<protocolVars, S_SESSION, S_CONTEXT_DATA, S_BREAKPOINT_ROW>>

\* get_response_properties(response, depth), called on a response document
GetResponseProperties ==
    /\ phase = "idle"
    /\ phase' = "done"
    /\ UNCHANGED <<protocolVars, settings, S_SESSION, S_CONTEXT_DATA, S_BREAKPOINT_ROW,
                   sideVars>>
    /\ \E top \in TopDocs, depth \in 0..MaxDepthArg, mode \in Modes, kids \in KidSeqs :
         LET r == get_response_properties(top, depth, World(NoFailure), Env(mode, kids), 1)
         IN  call' = [fn |-> "get_response_properties", exc |-> r.w.exc,
                      trace |-> r.w.trace,
                      tree |-> IF r.w.exc = "none" THEN r.props ELSE <<>>,
                      lines |-> <<>>, errors |-> 0, logged |-> <<>>, raised |-> r.w.exc,
                      top |-> top, depth |-> depth]

\* the caller has taken the result
Return ==
    /\ phase = "done"
    /\ phase' = "idle"
    /\ call' = NoCall
    /\ UNCHANGED <<protocolVars, settings, S_SESSION, S_CONTEXT_DATA, S_BREAKPOINT_ROW,
                   sideVars>>

NextTree == GetContextValues \/ GetStackValues \/ GetResponseProperties \/ Return

SpecTree == InitTree /\ [][NextTree]_vars


\* ================================================================ breakpoints
\* str < str: code point by code point, a proper prefix first
RECURSIVE TextLess(_, _)
TextLess(a, b) ==
    IF b = <<>> THEN FALSE
    ELSE IF a = <<>> THEN TRUE
    ELSE IF a[1] # b[1] THEN a[1] < b[1]
    ELSE TextLess(Tail(a), Tail(b))

\* the first component of the sort key of l.261: int(k) for a key of digits,
\* float('inf') for any other
LineNumber(k) == IF is_digit(k) THEN [inf |-> FALSE, n |-> IntOf(k)] ELSE [inf |-> TRUE, n |-> 0]

NumberLess(x, y) == IF x.inf THEN FALSE ELSE (y.inf \/ x.n < y.n)

\* the keys compared as plain text
LineLess_text(a, b) == TextLess(a, b)

\* the order of the key of l.261: the tuple (number, k)
LineLess(a, b) ==
    \/ NumberLess(LineNumber(a), LineNumber(b))
    \/ LineNumber(a) = LineNumber(b) /\ TextLess(a, b)

\* sorted(S.BREAKPOINT.items()): the keys of a dict are distinct, so the
\* tuples are ordered by the filename alone
FileLess(a, b) == TextLess(a, b)

\* sorted() of l.256: the arrangement of the files in which each is before
\* every greater one
SortedFiles(items) ==
    LET n == Len(items)
        order == CHOOSE f \in [1..n -> 1..n] :
                    /\ \A i, j \in 1..n : i # j => f[i] # f[j]
                    /\ \A i, j \in 1..n :
                         i < j => FileLess(items[f[i]].filename, items[f[j]].filename)
    IN  [i \in 1..n |-> items[order[i]]]

\* sorted() of l.261, on the lines of one file
SortedLines(items) ==
    LET n == Len(items)
        order == CHOOSE f \in [1..n -> 1..n] :
                    /\ \A i, j \in 1..n : i # j => f[i] # f[j]
                    /\ \A i, j \in 1..n :
                         i < j => LineLess(items[f[i]].lineno, items[f[j]].lineno)
    IN  [i \in 1..n |-> items[order[i]]]

\* one rendered breakpoint, l.262-270, without its newline
BreakpointLine(item) ==
    <<9>> \o (IF item.enabled THEN <<124, 43, 124>> ELSE <<124, 45, 124>>)
          \o <<SP>> \o item.lineno
          \o (IF item.expression # None
              THEN <<SP, 45, 45, SP, 34>> \o item.expression \o <<34>>
              ELSE <<>>)

\* l.258-270 for one file: its lines, none when the file has no breakpoint
RECURSIVE BreakpointLines(_)
BreakpointLines(items) ==
    IF items = <<>> THEN <<>>
    ELSE <<BreakpointLine(Head(items))>> \o BreakpointLines(Tail(items))

BreakpointEntry(file) ==
    IF file.data = <<>> THEN <<>>
    ELSE << <<61, 62, SP>> \o file.filename >>
         \o BreakpointLines(SortedLines(file.data))

RECURSIVE BreakpointEntries(_)
BreakpointEntries(files) ==
    IF files = <<>> THEN <<>>
    ELSE BreakpointEntry(Head(files)) \o BreakpointEntries(Tail(files))

\* get_breakpoint_values(): the lines of the text it returns
get_breakpoint_values(store) ==
    IF store.none THEN <<>>
    ELSE BreakpointEntries(SortedFiles(store.files))

\* ---- the stores
MaxLines == 3

MaxFiles == 2

Text2 == <<50>>

Text10 == <<49, 48>>

TextAbc == <<97, 98, 99>>

TextB == <<98>>

LineKeys == {Text2, Text10, TextAbc, TextB}

FileNames == {<<CharA>>, <<98>>}

\* the breakpoint of a line: 'enabled' and 'expression'
Breakpoint(k) ==
    [lineno |-> k, enabled |-> (k # Text10),
     expression |-> IF k = TextAbc THEN <<CharA>> ELSE None]

\* the items of a dict in the order of insertion: no key twice
Distinct(seq) == \A i, j \in 1..Len(seq) : i # j => seq[i] # seq[j]

FileData == {[i \in 1..Len(ks) |-> Breakpoint(ks[i])] : ks \in {q \in SeqsUpTo(LineKeys, MaxLines) : Distinct(q)}}

Stores ==
    {NoBreakpoints} \cup
    {[none |-> FALSE, files |-> [i \in 1..Len(names) |-> [filename |-> names[i], data |-> datas[i]]]] :
        <<names, datas>> \in {nd \in SeqsUpTo(FileNames, MaxFiles) \X SeqsUpTo(FileData, MaxFiles) :
                                Len(nd[1]) = Len(nd[2]) /\ Distinct(nd[1])}}

InitBreakpoints ==
    /\ InitProtocol
    /\ settings = [max_depth |-> IntSetting(1), max_children |-> IntSetting(0), hide_password |-> FALSE]
    /\ S_SESSION = "None"
    /\ S_CONTEXT_DATA = <<>>
    /\ S_BREAKPOINT_ROW = "None"
    /\ phase = "idle"
    /\ call = NoCall
    /\ S_BREAKPOINT \in Stores
    /\ threadpc = [t \in Threads |-> "idle"]
    /\ ops = <<>>
    /\ reader = NoReader

GetBreakpointValues ==
    /\ phase = "idle"
    /\ phase' = "done"
    /\ call' = [NoCall EXCEPT !.fn = "get_breakpoint_values",
                              !.lines = get_breakpoint_values(S_BREAKPOINT)]
    /\ UNCHANGED <<protocolVars, settings, S_SESSION, S_CONTEXT_DATA, S_BREAKPOINT_ROW,
                   sideVars>>

NextBreakpoints == GetBreakpointValues \/ Return

SpecBreakpoints == InitBreakpoints /\ [][NextBreakpoints]_vars


\* ================================================================ threads
\* Several threads run get_stack_values() on the one session S.SESSION. The
\* code takes no lock: a thread may be suspended between its send (l.398) and
\* its read (l.399). The engine answers the commands in the order it receives
\* them, and read() returns the oldest answer not yet read.
MaxOps == 6

\* the ids of the commands sent whose answer has not been read, oldest first
RECURSIVE Unanswered(_)
Unanswered(history) ==
    IF history = <<>> THEN <<>>
    ELSE LET before == Unanswered(SubSeq(history, 1, Len(history) - 1))
             o == history[Len(history)]
         IN  IF o.op = "send" THEN Append(before, o.id) ELSE Tail(before)

InitThreads ==
    /\ InitConnected
    /\ settings = [max_depth |-> IntSetting(1), max_children |-> IntSetting(0), hide_password |-> FALSE]
    /\ S_SESSION = "session"
    /\ S_CONTEXT_DATA = <<>>
    /\ S_BREAKPOINT_ROW = "row"
    /\ phase = "idle"
    /\ call = NoCall
    /\ S_BREAKPOINT = NoBreakpoints
    /\ threadpc = [t \in Threads |-> "idle"]
    /\ ops = <<>>
    /\ reader = NoReader

\* get_stack_values, l.398: S.SESSION.send(dbgp.STACK_GET)
StackSend ==
    \E t \in Threads :
        /\ threadpc[t] = "idle"
        /\ S_SESSION # "None"
        /\ Len(ops) < MaxOps
        /\ tid' = transaction_id(tid)
        /\ ops' = Append(ops, [thread |-> t, op |-> "send", id |-> tid'])
        /\ threadpc' = [threadpc EXCEPT ![t] = "sent"]
        /\ last' = Result("send", "none", None, None, <<>>, 0)
        /\ UNCHANGED <<buffer, connected, listening, socket, wire, peer, pc, issued,
                       settings, S_SESSION, S_CONTEXT_DATA, S_BREAKPOINT_ROW, phase, call,
                       S_BREAKPOINT, reader>>

\* get_stack_values, l.399: response = S.SESSION.read(), which blocks until a
\* response has arrived, and the rest of the call
StackRead ==
    \E t \in Threads :
        /\ threadpc[t] = "sent"
        /\ Unanswered(ops) # <<>>
        /\ ops' = Append(ops, [thread |-> t, op |-> "read", id |-> Head(Unanswered(ops))])
        /\ threadpc' = [threadpc EXCEPT ![t] = "idle"]
        /\ last' = Result("read", "none", None, None, <<>>, 1)
        /\ UNCHANGED <<buffer, connected, listening, socket, tid, wire, peer, pc, issued,
                       settings, S_SESSION, S_CONTEXT_DATA, S_BREAKPOINT_ROW, phase, call,
                       S_BREAKPOINT, reader>>

NextThreads == StackSend \/ StackRead

SpecThreads == InitThreads /\ [][NextThreads]_vars


\* ================================================================ recovery
\* A connected session whose stream holds two frames, each with a declared
\* length that is right or wrong, read one after the other.
TwoFrames ==
    {Frame(d1, p1) \o Frame(d2, p2) : <<d1, p1, d2, p2>> \in
        (0..MaxPayload) \X Payloads \X (0..MaxPayload) \X Payloads}

InitRecover ==
    /\ buffer = <<>>
    /\ connected = TRUE
    /\ listening = FALSE
    /\ tid = 1
    /\ socket = "sock"
    /\ wire \in TwoFrames
    /\ peer = "up"
    /\ pc = "idle"
    /\ last = Result("init", "none", None, None, <<>>, 0)
    /\ issued = <<1>>
    /\ InitTreeIdle

NextRecover == Read

SpecRecover == InitRecover /\ [][NextRecover]_vars


\* ================================================================ end of stream
\* read() at the grain of its call and its return, with an engine that writes
\* frames and may close the connection.
\* read(), l.118 -> read_data(), l.106 -> read_until_null(), l.92: on a
\* connected session the caller is at the test of l.94, about to read the
\* length segment
ReadCall ==
    /\ reader.at = "idle"
    /\ reader' = IF connected THEN [at |-> "while", length |-> None] ELSE NoReader
    /\ last' = IF connected THEN Result("read_call", "none", None, None, <<>>, 0)
               ELSE Result("read", "ProtocolConnectionException", None, None, <<>>, 0)
    /\ UNCHANGED <<buffer, connected, listening, socket, tid, wire, peer, pc, issued,
                   settings, S_SESSION, S_CONTEXT_DATA, S_BREAKPOINT_ROW, phase, call,
                   S_BREAKPOINT, threadpc, ops>>

\* l.94: no NUL in the buffer, so on to the recv() of l.95
WhileTest ==
    /\ reader.at = "while"
    /\ ~HasNul(buffer)
    /\ reader' = [reader EXCEPT !.at = "recv"]
    /\ last' = Result("while", "none", None, None, <<>>, 0)
    /\ UNCHANGED <<buffer, connected, listening, socket, tid, wire, peer, pc, issued,
                   settings, S_SESSION, S_CONTEXT_DATA, S_BREAKPOINT_ROW, phase, call,
                   S_BREAKPOINT, threadpc, ops>>

\* l.95: self.buffer += H.data_read(self.socket.recv(self.read_size)), and back
\* to the test of l.94.  recv() blocks while the peer is up and has sent
\* nothing; once the peer has closed it returns b'' at once.
Recv ==
    /\ reader.at = "recv"
    /\ socket # "None"
    /\ peer \in {"up", "closed"}
    /\ wire # <<>> \/ peer = "closed"
    /\ LET k == Min(Len(wire), read_size)
           d == data_read(Take(wire, k))
       IN  /\ wire' = Drop(wire, k)
           /\ IF d.ok
              THEN /\ buffer' = buffer \o d.text
                   /\ reader' = [reader EXCEPT !.at = "while"]
                   /\ last' = Result("recv", "none", d.text, None, <<>>, 1)
              ELSE /\ buffer' = buffer
                   /\ reader' = NoReader
                   /\ last' = Result("read", "UnicodeDecodeError", None, None, <<>>, 1)
    /\ UNCHANGED <<connected, listening, socket, tid, peer, pc, issued,
                   settings, S_SESSION, S_CONTEXT_DATA, S_BREAKPOINT_ROW, phase, call,
                   S_BREAKPOINT, threadpc, ops>>

\* l.94, 96-97 for the first segment: read_data() keeps it as the length
\* (l.106) and calls read_until_null() again (l.107, l.92)
LengthSegment ==
    /\ reader.at = "while"
    /\ reader.length = None
    /\ HasNul(buffer)
    /\ LET i == FirstNul(buffer) IN
        /\ buffer' = SubSeq(buffer, i + 1, Len(buffer))
        /\ reader' = IF connected THEN [at |-> "while", length |-> SubSeq(buffer, 1, i - 1)]
                      ELSE NoReader
        /\ last' = IF connected
                   THEN Result("length", "none", SubSeq(buffer, 1, i - 1), None, <<>>, 0)
                   ELSE Result("read", "ProtocolConnectionException", None, None, <<>>, 0)
    /\ UNCHANGED <<connected, listening, socket, tid, wire, peer, pc, issued,
                   settings, S_SESSION, S_CONTEXT_DATA, S_BREAKPOINT_ROW, phase, call,
                   S_BREAKPOINT, threadpc, ops>>

\* l.94, 96-97 for the second segment, then l.108-111 and the rest of
\* read(), l.119-127: it returns or raises
ReadReturn ==
    /\ reader.at = "while"
    /\ reader.length # None
    /\ HasNul(buffer)
    /\ \E return_string \in BOOLEAN :
        LET i       == FirstNul(buffer)
            message == SubSeq(buffer, 1, i - 1)
            exc     == IF ~IsDecimal(reader.length) THEN "ValueError"
                       ELSE IF IntOf(reader.length) # Len(message) THEN "ProtocolException"
                       ELSE IF ~return_string /\ ~ParsesAsXml(message) THEN "ParseError"
                       ELSE "none"
        IN
        /\ buffer' = SubSeq(buffer, i + 1, Len(buffer))
        /\ last' = Result("read", exc, IF exc = "none" THEN message ELSE None,
                          IF exc \in {"none", "ParseError"} THEN message ELSE None, <<>>, 0)
    /\ reader' = NoReader
    /\ UNCHANGED <<connected, listening, socket, tid, wire, peer, pc, issued,
                   settings, S_SESSION, S_CONTEXT_DATA, S_BREAKPOINT_ROW, phase, call,
                   S_BREAKPOINT, threadpc, ops>>

\* the engine closes the connection: what it wrote can still be received
PeerClose ==
    /\ socket = "sock"
    /\ peer = "up"
    /\ UNCHANGED treeVars
    /\ peer' = "closed"
    /\ last' = Result("peer_close", "none", None, None, <<>>, 0)
    /\ UNCHANGED <<buffer, connected, listening, socket, tid, wire, pc, issued>>

MaxStream == 4      \* bytes the engine has sent that no read() has returned yet

\* the text received or in flight that no read() has returned yet
Unreturned ==
    Len(buffer) + Len(wire) + (IF reader.length = None THEN 0 ELSE Len(reader.length) + 1)

\* the engine writes a whole frame or the beginning of one
EngineWritePart ==
    /\ socket = "sock"
    /\ peer = "up"
    /\ UNCHANGED treeVars
    /\ \E payload \in {<<>>, <<CharA>>}, k \in 1..4 :
        /\ Unreturned + k <= MaxStream
        /\ k <= Len(Frame(Len(payload), payload))
        /\ wire' = wire \o Take(Frame(Len(payload), payload), k)
    /\ last' = Result("engine_write", "none", None, None, <<>>, 0)
    /\ UNCHANGED <<buffer, connected, listening, socket, tid, peer, pc, issued>>

InitEof ==
    /\ buffer = <<>>
    /\ connected = TRUE
    /\ listening = FALSE
    /\ tid = 1
    /\ socket = "sock"
    /\ wire = <<>>
    /\ peer = "up"
    /\ pc = "idle"
    /\ last = Result("init", "none", None, None, <<>>, 0)
    /\ issued = <<1>>
    /\ InitTreeIdle

NextEof ==
    ReadCall \/ WhileTest \/ Recv \/ LengthSegment \/ ReadReturn \/ EngineWritePart \/ PeerClose

\* the thread inside read() keeps running
ReaderFairness ==
    /\ WF_vars(WhileTest)
    /\ WF_vars(Recv)
    /\ WF_vars(LengthSegment)
    /\ WF_vars(ReadReturn)

SpecEof == InitEof /\ [][NextEof]_vars /\ ReaderFairness


\* ================================================================ claims
\* the bytes of the stream the session has not returned yet
Pending == Utf8Encode(buffer) \o wire

\* C1: the ids of the '-i <id>' tokens built by the sends since construction
\* or the last clear() are 1, 2, ..., N in this order, whether the sends
\* failed or not
C1_TransactionIdsCount == \A i \in 1..Len(issued) : issued[i] = i

C1_Witness == Len(issued) >= 2 /\ last.op = "send" /\ last.exc = "ProtocolConnectionException"

\* C2: with the frame len(P) NUL P NUL at the head of the unread stream of a
\* connected session, a read returns exactly P from read_data() and leaves
\* what follows the frame unread, however recv() chunks the stream
C2_FramingRoundTrip ==
    [][\A P \in Payloads :
        (connected /\ IsPrefix(Frame(Len(P), P), Pending) /\ last'.op = "read")
        => /\ last'.logged # None
           /\ Utf8Encode(last'.logged) = P
           /\ Utf8Encode(buffer') \o wire' = Drop(Pending, Len(Frame(Len(P), P)))]_vars

\* C3: when the first segment at the head of the unread stream is a decimal
\* number that differs from the byte length of the second segment, a read
\* raises ProtocolException
C3_LengthMismatchRaises ==
    [][\A i \in 1..Len(Pending), j \in 1..Len(Pending) :
        (/\ connected
         /\ i < j /\ Pending[i] = NUL /\ Pending[j] = NUL
         /\ \A n \in 1..(j - 1) : (Pending[n] = NUL) = (n = i)
         /\ IsDecimal(SubSeq(Pending, 1, i - 1))
         /\ IntOf(SubSeq(Pending, 1, i - 1)) # j - i - 1
         /\ last'.op = "read")
        => last'.exc = "ProtocolException"]_vars

\* C4: clear() never raises, ends with connected = False, listening = False,
\* socket = None, an empty buffer and the counter at 0, and a clear() right
\* after a clear() changes none of these
C4_ClearResets ==
    [][last'.op = "clear"
        => /\ last'.exc = "none"
           /\ ~connected' /\ ~listening' /\ socket' = "None"
           /\ buffer' = <<>> /\ tid' = 0
           /\ (last.op = "clear"
                => UNCHANGED <<buffer, connected, listening, socket, tid>>)]_vars

C4_Witness == last.op = "clear" /\ pc = "accept"

\* C6 as claimed: a send() that fails on the transport leaves connected,
\* listening, buffer, socket and the transaction counter as they were
C6_FailedSendChangesNothing ==
    [][(last'.op = "send" /\ last'.exc = "ProtocolConnectionException")
        => UNCHANGED <<connected, listening, buffer, socket, tid>>]_vars

\* C6 amended: a send() that fails on the transport leaves connected,
\* listening, buffer and socket as they were and has advanced the transaction
\* counter by one
C6_FailedSendKeepsConnection ==
    [][(last'.op = "send" /\ last'.exc = "ProtocolConnectionException")
        => /\ UNCHANGED <<connected, listening, buffer, socket>>
           /\ tid' = tid + 1]_vars

C6_Witness ==
    /\ last.op = "send" /\ last.exc = "ProtocolConnectionException"
    /\ connected /\ peer = "reset"

\* C7: read() on a session that is not connected raises
\* ProtocolConnectionException, calls no recv() and changes no field
C7_ReadNotConnected ==
    [][(~connected /\ last'.op = "read")
        => /\ last'.exc = "ProtocolConnectionException"
           /\ ~last'.recv
           /\ UNCHANGED <<buffer, connected, listening, socket, tid, wire, peer>>]_vars

C7_Witness ==
    /\ last.op = "read" /\ last.exc = "ProtocolConnectionException"
    /\ ~connected /\ socket = "sock"

\* C8: a send() that returns has written the whole command string and its NUL
C8_SendWritesAll ==
    (last.op = "send" /\ last.exc = "none")
        => last.written = data_write(last.logged \o <<NUL>>)

\* every node of a tree with its depth, the top level being depth 0
RECURSIVE AllNodes(_, _)
AllNodes(nodes, d) ==
    UNION {{[n |-> nodes[i], d |-> d]} \cup AllNodes(nodes[i].children.nodes, d + 1)
           : i \in 1..Len(nodes)}

\* C5: in every execution of get_context_values() and get_stack_values(), the
\* nested get_property_children() calls included, the operations on the session
\* alternate send, read, send, read, ...: the odd ones are sends, the even ones
\* reads, so no send follows an unanswered send and no read lacks its send.
C5_HalfDuplex ==
    \A i \in 1..Len(call.trace) :
        call.trace[i].op = IF i % 2 = 1 THEN "send" ELSE "read"

C5_Witness ==
    /\ phase = "done" /\ call.fn = "get_stack_values" /\ call.exc = "none"
    /\ Len(call.trace) = 2 /\ call.trace[1].cmd = dbgp.STACK_GET
    /\ Len(call.lines) = 2

\* C9: the tree get_response_properties() returns holds, at no level, a node
\* named '::' or a node whose name counts more than one '::' (occurrences
\* counted left to right without overlap), and no property_get is sent for
\* such a name.
C9_NoStaticNames ==
    /\ \A x \in AllNodes(call.tree, 0) \cup AllNodes(S_CONTEXT_DATA, 0) :
         x.n.name # NameStatic /\ CountStatic(x.n.name) <= 1
    /\ \A i \in 1..Len(call.trace) :
         call.trace[i].cmd = "property_get"
         => call.trace[i].n # NameStatic /\ CountStatic(call.trace[i].n) <= 1

C9_Witness ==
    /\ phase = "done" /\ call.fn = "get_response_properties" /\ call.exc = "none"
    /\ S_SESSION = "session"
    /\ call.top = <<Parent(NameStatic), Untyped(NameA)>>
    /\ Len(call.tree) = 1 /\ call.tree[1].name = NameA
    /\ call.trace = <<>>

\* C10: with max_depth an integer other than 0, every node of the tree built by
\* get_response_properties() lies at depth <= max_depth + 1, no node deeper
\* than max_depth is expanded, and every round trip of a lazy expansion is made
\* for a node at depth <= max_depth.
C10_DepthLimit ==
    IsLimit(settings.max_depth)
    => /\ \A x \in AllNodes(call.tree, call.depth) \cup AllNodes(S_CONTEXT_DATA, 0) :
            /\ x.d <= settings.max_depth.v + 1
            /\ x.d > settings.max_depth.v => ~x.n.children.expanded
       /\ \A i \in 1..Len(call.trace) : call.trace[i].depth <= settings.max_depth.v

C10_Witness ==
    /\ IsLimit(settings.max_depth)
    /\ phase = "done" /\ call.fn = "get_response_properties" /\ call.exc = "none"
    /\ call.depth > settings.max_depth.v
    /\ call.top = <<Leaf(NameA), Parent(NameA)>>
    /\ call.tree = <<>>

\* the call ran the loop body on its elements: the depth given is within max_depth
WithinDepth == ~(IsLimit(settings.max_depth) /\ call.depth > settings.max_depth.v)

\* C11: for a node that declares numchildren = 2 with max_children = 1 and a
\* session set, extraction completes, feature_set is sent with the value
\* max_children and followed by property_get, and no node stores more than
\* max_children lazily fetched children.
C11_BoundedExpansion ==
    (/\ phase = "done" /\ call.fn = "get_response_properties"
     /\ S_SESSION = "session" /\ WithinDepth
     /\ settings.max_children = IntSetting(1)
     /\ call.top = <<Many(NameA)>>)
    => /\ call.exc = "none"
       /\ \E i \in 1..Len(call.trace) :
            /\ call.trace[i].op = "send" /\ call.trace[i].cmd = "feature_set"
            /\ call.trace[i].v = FormatInt(settings.max_children.v)
            /\ i + 2 <= Len(call.trace) /\ call.trace[i + 2].cmd = "property_get"
       /\ \A x \in AllNodes(call.tree, call.depth) :
            Len(x.n.children.nodes) <= settings.max_children.v

\* the element of the document a top-level node was last stored from
ElementOf(node) ==
    call.top[CHOOSE i \in 1..Len(call.top) :
                /\ call.top[i].fullname = node.name
                /\ \A j \in (i + 1)..Len(call.top) : call.top[j].fullname # node.name]

Kept(parts) == SelectSeq([i \in 1..Len(parts) |-> Strip(parts[i])], LAMBDA t : t # <<>>)

\* C13: the command string send() builds is the command name, '-i <id>', the
\* positional arguments in the order given, the '-<flag> <value>' pairs in the
\* order of the mapping, blank segments dropped, joined by single spaces, and,
\* when an expression that is not empty is given, ' -- ' and its base64 text
\* ('YSA=' for 'a ') at the end.
C13_CommandTokens ==
    last.op = "send"
    => LET pairs == [i \in 1..Len(last.kw) |->
                        <<45>> \o last.kw[i].k \o <<SP>> \o last.kw[i].v]
           head  == Join(Kept(<<last.command, <<45, 105, SP>> \o FormatInt(last.id)>>
                              \o last.args \o pairs))
       IN  /\ last.expression \in {None, <<>>} => last.built = head
           /\ last.expression = <<CharA, SP>>
              => last.built = head \o <<SP, 45, 45, SP, 89, 83, 65, 61>>
           /\ \A i \in 1..(Len(head) - 1) : ~(head[i] = SP /\ head[i + 1] = SP)

C13_Witness ==
    /\ last.op = "send" /\ last.exc = "none"
    /\ last.args = << <<SP>>, <<CharA, SP>> >> /\ last.kw = <<KwN, KwV>>
    /\ last.expression = <<CharA, SP>> /\ last.id = 2
    /\ last.logged = Run \o <<SP, 45, 105, SP, 50, SP, CharA, SP, 45, 110, SP, CharA,
                               SP, 45, 118, SP, 48, SP, 45, 45, SP, 89, 83, 65, 61>>


\* a rendered line that names a file: '=> <filename>'
IsFileLine(l) == Len(l) >= 3 /\ Take(l, 3) = <<61, 62, SP>>

\* the text of a rendered line up to its next space, after its first k characters
Token(l, k) ==
    LET rest == Drop(l, k)
        stop == IF \E i \in 1..Len(rest) : rest[i] = SP
                THEN (CHOOSE i \in 1..Len(rest) : rest[i] = SP /\ \A j \in 1..(i - 1) : rest[j] # SP) - 1
                ELSE Len(rest)
    IN  Take(rest, stop)

\* the rendered lines of the file named at line i: up to the next file line
BlockOf(lines, i) ==
    {j \in (i + 1)..Len(lines) : \A m \in (i + 1)..j : ~IsFileLine(lines[m])}

\* the order the rendering promises for two line keys
KeyBefore(x, y) ==
    \/ IsDecimal(x) /\ ~IsDecimal(y)
    \/ IsDecimal(x) /\ IsDecimal(y) /\ IntOf(x) < IntOf(y)
    \/ ~IsDecimal(x) /\ ~IsDecimal(y) /\ TextLess(x, y)

\* C14: get_breakpoint_values() renders the files that have breakpoints in
\* ascending filename order, each once, and under each file exactly its line
\* keys: the numeric ones in ascending numeric order, then the others in
\* alphabetical order, whatever the order of insertion in the store.
C14_BreakpointOrder ==
    (phase = "done" /\ call.fn = "get_breakpoint_values")
    => LET lines == call.lines
           files == S_BREAKPOINT.files
           heads == {i \in 1..Len(lines) : IsFileLine(lines[i])}
       IN  /\ \A i, j \in heads : i < j => TextLess(Token(lines[i], 3), Token(lines[j], 3))
           /\ {Token(lines[i], 3) : i \in heads}
                = {files[f].filename : f \in {g \in 1..Len(files) : files[g].data # <<>>}}
           /\ \A i \in heads : \A f \in 1..Len(files) :
                files[f].filename = Token(lines[i], 3)
                => /\ Cardinality(BlockOf(lines, i)) = Len(files[f].data)
                   /\ {Token(lines[j], 5) : j \in BlockOf(lines, i)}
                        = {files[f].data[d].lineno : d \in 1..Len(files[f].data)}
                   /\ \A a, b \in BlockOf(lines, i) :
                        a < b => KeyBefore(Token(lines[a], 5), Token(lines[b], 5))
           /\ (heads = {}) => lines = <<>>

\* the keys inserted as abc, 10, 2 under one file are rendered as 2, 10, abc
C14_Witness ==
    /\ phase = "done" /\ call.fn = "get_breakpoint_values"
    /\ ~S_BREAKPOINT.none /\ Len(S_BREAKPOINT.files) = 1
    /\ S_BREAKPOINT.files[1].filename = <<CharA>>
    /\ S_BREAKPOINT.files[1].data = <<Breakpoint(TextAbc), Breakpoint(Text10), Breakpoint(Text2)>>
    /\ call.lines = << <<61, 62, SP, CharA>>,
                       <<9, 124, 43, 124, SP, 50>>,
                       <<9, 124, 45, 124, SP, 49, 48>>,
                       <<9, 124, 43, 124, SP, 97, 98, 99, SP, 45, 45, SP, 34, 97, 34>> >>

\* C15: a property that declares children and whose numchildren is absent or
\* not a number is extracted and rendered without an exception (no session is
\* set, so that nothing but the count is in play).
C15_UnknownCountTolerated ==
    (/\ phase = "done" /\ call.fn = "get_response_properties"
     /\ S_SESSION = "None" /\ WithinDepth
     /\ call.top \in {<<Uncounted(NameA)>>, <<Miscounted(NameA)>>})
    => /\ call.exc = "none"
       /\ generate_context_output(call.tree, 0).exc = "none"

\* a send or read of the call failed with a connection error
ConnectionLost ==
    /\ phase = "done" /\ call.fn \in {"get_context_values", "get_stack_values"}
    /\ call.raised \in {"socket.error", "ProtocolConnectionException"}

\* connection_error() ran once and reset the session and what derives from it
ResetOnce ==
    /\ call.errors = 1 /\ call.exc = "none"
    /\ S_SESSION = "None" /\ S_BREAKPOINT_ROW = "None" /\ S_CONTEXT_DATA = <<>>
    /\ buffer = <<>> /\ ~connected /\ ~listening /\ socket = "None" /\ tid = 0
    /\ last.op = "clear"

C17_ListenTransitions ==
    [][/\ (pc = "idle" /\ pc' = "accept") => listening'
       /\ (pc = "connect" /\ pc' = "idle")
            => (~listening' /\ connected' /\ socket' # "None" /\ last'.exc = "none")
       /\ (pc = "reset" /\ pc' = "idle")
            => (~listening' /\ ~connected' /\ socket' = "None")
       /\ (pc # "idle" /\ pc' = "idle") => ~listening']_vars

\* C18: when listening has been set to False by another thread while listen()
\* is in its accept loop and no connection has been accepted, listen()
\* eventually returns, with connected False.
C18_Cancellable ==
    (pc = "accept" /\ ~listening /\ socket = "None")
        ~> (pc = "idle" /\ last.op = "listen_return" /\ ~connected)

\* listen() has returned from a cancelled accept loop
C18_Witness ==
    /\ pc = "idle" /\ last.op = "listen_return" /\ last.exc = "none"
    /\ ~connected /\ ~listening /\ socket = "None"

\* the last command thread t sent before position i of the history
LastSendOf(t, i) ==
    CHOOSE j \in 1..(i - 1) :
        /\ ops[j].thread = t /\ ops[j].op = "send"
        /\ \A k \in (j + 1)..(i - 1) : ~(ops[k].thread = t /\ ops[k].op = "send")

\* C19: when two threads use the shared session at the same time, no send of
\* one falls between a send of the other and the read that follows it, and
\* each read returns the response to the command its own thread sent.
C19_NoInterleaving ==
    \A i \in 1..Len(ops) :
       /\ (ops[i].op = "send" /\ i > 1) => ops[i - 1].op = "read"
       /\ ops[i].op = "read" => ops[i].id = ops[LastSendOf(ops[i].thread, i)].id

AfterTwoSegments(stream) ==
    LET i == FirstNul(stream)
        rest == Drop(stream, i)
    IN  Drop(rest, FirstNul(rest))

\* C22: a read that raises ProtocolException leaves the session connected,
\* with the same socket and transaction counter, and has consumed exactly the
\* two segments of the offending frame; the read that follows returns the
\* payload of the frame len(P) NUL P NUL that is next on the stream.
C22_FramingErrorRecoverable ==
    [][/\ (last'.op = "read" /\ last'.exc = "ProtocolException")
            => /\ connected' /\ socket' = socket /\ socket' # "None" /\ tid' = tid
               /\ Utf8Encode(buffer') \o wire' = AfterTwoSegments(Pending)
       /\ \A P \in Payloads :
            (/\ last.op = "read" /\ last.exc = "ProtocolException"
             /\ IsPrefix(Frame(Len(P), P), Pending)
             /\ last'.op = "read")
            => /\ last'.logged # None
               /\ Utf8Encode(last'.logged) = P]_vars

\* C23: a read in progress on a connected session whose peer has closed the
\* connection ends, by returning or by raising.
C23_ReadEndsAtEof ==
    (reader.at # "idle" /\ connected /\ peer = "closed") ~> (reader.at = "idle")

\* C24: in every reachable state of a session on which listen() runs in one
\* thread while other threads call clear(), connected implies a socket that
\* is not None, and listening and connected are not both True.
C24_FlagsConsistent ==
    /\ connected => socket # "None"
    /\ ~(listening /\ connected)

\* the round trips of a call: its reads of the session
RoundTrips(trace) == Cardinality({i \in 1..Len(trace) : trace[i].op = "read"})

====
